---- MODULE Spec2Model ----
(***************************************************************************)
(* A model of scripts/hf_search_tool.py: the HuggingFaceSearch class       *)
(* (search, _format_model, the preset wrappers, print_results, export_csv) *)
(* and its two clients, main() and interactive_mode().                     *)
(*                                                                         *)
(* Python values are tagged records: [t |-> type, s |-> characters] for    *)
(* values that may be a string, None, a list or missing, and               *)
(* [t |-> type, n |-> number] for numeric attributes.  A string is the     *)
(* sequence of its characters; the literals "huggingface.co",              *)
(* "independent" and "other" are one token each.                           *)
(***************************************************************************)
EXTENDS Integers, Sequences, FiniteSets, TLC

VARIABLES
    pc,          \* position of the running client (main, interactive_mode or a formatter call)
    op,          \* the HuggingFaceSearch method called last
    args,        \* the keyword arguments search() was last called with
    params,      \* search_params handed to list_models by that call
    upstream,    \* the records list_models yielded during that call, in order
    ending,      \* how that iteration ended: "stop", "call_error", "iter_error", "interrupt"
    results,     \* the list the last search returned (the client's `results`)
    log,         \* levels logged by the last search
    out,         \* lines printed by the last step
    dirs,        \* directories that exist
    files,       \* files that exist, with their contents
    cmd,         \* interactive_mode: the parsed command word and argument
    ncmd,        \* interactive_mode: commands read so far
    interrupted, \* a KeyboardInterrupt was raised in the client
    model,       \* the record handed to _format_model on its own
    formatted    \* what _format_model returned for it

vars == <<pc, op, args, params, upstream, ending, results, log, out, dirs, files,
          cmd, ncmd, interrupted, model, formatted>>

-----------------------------------------------------------------------------
(* Bounds of the model *)

MaxModels == 2        \* records list_models yields in one call (search client)
MaxIdLen == 3         \* characters of an identifier handed to _format_model alone
MaxCommands == 2      \* commands read by interactive_mode
MaxYield == 1         \* records list_models yields in one call (interactive client)

(* Constants of the program *)

TaskFloor == 1000
PopularFloor == 10000
DefaultLimit == 50
NameLimit == 20

-----------------------------------------------------------------------------
(* Python values *)

PyNone == [t |-> "None", s |-> <<>>]
PyStr(s) == [t |-> "str", s |-> s]
PyList(s) == [t |-> "list", s |-> s]
Absent == [t |-> "absent", s |-> <<>>]
PyIntObj == [t |-> "int", s |-> <<>>]      \* a non-zero integer where a string is expected

NumNone == [t |-> "None", n |-> 0]
NumAbsent == [t |-> "absent", n |-> 0]
Num(n) == [t |-> "int", n |-> n]
NumStr == [t |-> "str", n |-> 0]           \* a non-empty string where a number is expected

None == [t |-> "None"]

\* bool(v) of a string, None or list
Truthy(v) == (v.t \in {"str", "list"} /\ v.s # <<>>) \/ v.t = "int"

LowerChar(c) ==
    CASE c = "A" -> "a" [] c = "B" -> "b" [] c = "Q" -> "q" [] c = "Y" -> "y" [] OTHER -> c

\* str.lower
Lower(s) == [i \in DOMAIN s |-> LowerChar(s[i])]

\* `needle in hay` for two strings
Contains(needle, hay) ==
    \E i \in 0..(Len(hay) - Len(needle)) : SubSeq(hay, i + 1, i + Len(needle)) = needle

HasSlash(s) == \E i \in DOMAIN s : s[i] = "/"

\* rsplit('/', 1) in place of split('/', 1)
LastSlash(s) == CHOOSE i \in DOMAIN s : s[i] = "/" /\ \A j \in (i + 1)..Len(s) : s[j] # "/"

\* where split('/', 1) cuts
FirstSlash(s) == CHOOSE i \in DOMAIN s : s[i] = "/" /\ \A j \in 1..(i - 1) : s[j] # "/"

HF == <<"huggingface.co">>
Independent == <<"independent">>
Other == <<"other">>

-----------------------------------------------------------------------------
(* HuggingFaceSearch._format_model *)

\* getattr(model, 'id', str(model))
ModelId(m) == IF m.id.t = "absent" THEN PyStr(m.repr) ELSE m.id

\* `'/' in model_id` raises TypeError for a non-container; model_id.split raises
\* AttributeError for a list that holds '/'
FormatRaises(m) ==
    LET model_id == ModelId(m) IN
    /\ Truthy(model_id)
    /\ \/ model_id.t = "int"
       \/ model_id.t = "list" /\ HasSlash(model_id.s)

\* getattr(model, name, 0) or 0
OrZero(v) == IF v.t = "str" THEN v ELSE IF v.t = "int" THEN Num(v.n) ELSE Num(0)

\* the dictionary built from a usable model_id
FormatFields(m) ==
    LET model_id == ModelId(m)
        slash == model_id.t = "str" /\ HasSlash(model_id.s)
        k == FirstSlash(model_id.s)
        org == IF slash THEN SubSeq(model_id.s, 1, k - 1) ELSE Independent
        model_name == IF slash
                      THEN PyStr(SubSeq(model_id.s, k + 1, Len(model_id.s)))
                      ELSE model_id
    IN [model_name |-> model_name,
        task |-> IF Truthy(m.pipeline_tag) THEN m.pipeline_tag.s ELSE Other,
        organization_url |-> IF slash THEN HF \o <<"/">> \o org ELSE HF,
        full_model_id |-> model_id,
        organization |-> org,
        downloads |-> OrZero(m.downloads),
        likes |-> OrZero(m.likes)]

\* without `if not model_id: return None`: None still raises in `'/' in model_id`
FormatModelNoIdCheck(m) ==
    IF ModelId(m).t = "None" \/ FormatRaises(m) THEN None ELSE FormatFields(m)

_format_model(m) ==
    IF ~Truthy(ModelId(m)) THEN None
    ELSE IF FormatRaises(m) THEN None
    ELSE FormatFields(m)

-----------------------------------------------------------------------------
(* HuggingFaceSearch.search *)

DefaultArgs ==
    [query |-> PyNone, task |-> PyNone, organization |-> PyNone, library |-> PyNone,
     sort |-> <<"downloads">>, direction |-> -1, limit |-> DefaultLimit,
     min_downloads |-> 0, created_after |-> PyNone]

\* search_params: a key the code does not set is Absent
BuildParams(a) ==
    [sort |-> a.sort, direction |-> a.direction, limit |-> a.limit, full |-> TRUE,
     task |-> IF Truthy(a.task) THEN a.task ELSE Absent,
     author |-> IF Truthy(a.organization) THEN a.organization ELSE Absent,
     library |-> IF Truthy(a.library) THEN a.library ELSE Absent,
     search |-> IF Truthy(a.query) THEN a.query ELSE Absent,
     created_at |-> IF Truthy(a.created_after) THEN a.created_after ELSE Absent]

\* the text query filter: "continue", "pass", or "raise" when model_name has no .lower()
QueryFilter(model_data, query) ==
    IF ~Truthy(query) THEN "pass"
    ELSE IF model_data.model_name.t # "str" THEN "raise"
    ELSE IF Contains(Lower(query.s), Lower(model_data.model_name.s)) THEN "pass"
    ELSE IF Contains(Lower(query.s), Lower(model_data.full_model_id.s)) THEN "pass"
    ELSE "continue"

\* the loop body without the download filter
ProcessModelNoFloor(acc, m, query, min_downloads) ==
    LET model_data == _format_model(m)
    IN IF model_data = None \/ model_data.downloads.t # "int" THEN acc
       ELSE [results |-> Append(acc.results, model_data), log |-> acc.log]

\* the loop body with results.insert(0, model_data) in place of append
ProcessModelPrepend(acc, m, query, min_downloads) ==
    LET model_data == _format_model(m)
    IN IF model_data = None \/ model_data.downloads.t # "int" THEN acc
       ELSE IF model_data.downloads.n >= min_downloads
            THEN [results |-> <<model_data>> \o acc.results, log |-> acc.log]
            ELSE acc

\* one pass of the body of `for model in models`, on acc = [results, log]
ProcessModel(acc, m, query, min_downloads) ==
    LET model_data == _format_model(m)
        flog == IF FormatRaises(m) THEN Append(acc.log, "warning") ELSE acc.log
    IN IF model_data = None THEN [results |-> acc.results, log |-> flog]
       ELSE IF model_data.downloads.t # "int"
            THEN [results |-> acc.results, log |-> Append(flog, "warning")]
       ELSE LET appended == IF model_data.downloads.n >= min_downloads
                            THEN Append(acc.results, model_data)
                            ELSE acc.results
            IN [results |-> appended,
                log |-> IF QueryFilter(model_data, query) = "raise"
                        THEN Append(flog, "warning") ELSE flog]

RECURSIVE ProcessModels(_, _, _, _)
ProcessModels(acc, models, query, min_downloads) ==
    IF models = <<>> THEN acc
    ELSE ProcessModels(ProcessModel(acc, Head(models), query, min_downloads),
                       Tail(models), query, min_downloads)

\* an except clause that returns what was collected so far
SearchFailedKeeps(acc) ==
    [results |-> acc.results, log |-> Append(acc.log, "error"), raised |-> FALSE]

\* what the except clause of search returns for a failed listing
SearchFailed(acc) == [results |-> <<>>, log |-> Append(acc.log, "error"), raised |-> FALSE]

\* search(**a) when list_models yields `models` and then ends as `end` says
search(a, models, end) ==
    LET start == [results |-> <<>>, log |-> <<"info">>]
        acc == ProcessModels(start, models, a.query, a.min_downloads)
    IN CASE end = "call_error" -> SearchFailed(start)
         [] end = "iter_error" -> SearchFailed(acc)
         [] end = "interrupt" -> [results |-> <<>>, log |-> acc.log, raised |-> TRUE]
         [] OTHER -> [results |-> acc.results, log |-> Append(acc.log, "info"),
                      raised |-> FALSE]

(* The preset wrappers: the arguments each passes to search *)

search_by_name(name, limit) == [DefaultArgs EXCEPT !.query = name, !.limit = limit]

\* search_by_task without its floor
SearchByTaskNoFloor(task, limit, popular_only) ==
    [DefaultArgs EXCEPT !.task = task, !.limit = limit]

search_by_task(task, limit, popular_only) ==
    LET min_downloads == IF popular_only THEN TaskFloor ELSE 0
    IN [DefaultArgs EXCEPT !.task = task, !.limit = limit, !.min_downloads = min_downloads]

search_by_org(org, limit) == [DefaultArgs EXCEPT !.organization = org, !.limit = limit]

get_popular(task, limit) ==
    [DefaultArgs EXCEPT !.task = task, !.limit = limit, !.sort = <<"downloads">>,
                        !.min_downloads = PopularFloor]

get_recent(task, limit) ==
    [DefaultArgs EXCEPT !.task = task, !.limit = limit, !.sort = <<"created">>,
                        !.created_after = PyStr(<<"2024-01-01">>)]

-----------------------------------------------------------------------------
(* HuggingFaceSearch.print_results and export_csv *)

\* str(v), as csv.writer writes a cell
RECURSIVE ReprItems(_)
ReprItems(s) ==
    IF s = <<>> THEN <<>>
    ELSE <<"'", Head(s), "'">> \o (IF Len(s) > 1 THEN <<", ">> ELSE <<>>) \o ReprItems(Tail(s))

Str(v) == IF v.t = "str" THEN v.s ELSE <<"[">> \o ReprItems(v.s) \o <<"]">>

\* f"{model['model_name']:<40}" raises TypeError for a value that is not a string
RowRaises(r) == r.model_name.t # "str"

PrintRaises(rs) == \E i \in DOMAIN rs : RowRaises(rs[i])

ResultLine(i, r, show_downloads) ==
    [kind |-> "row", i |-> i, model_name |-> r.model_name.s, task |-> r.task,
     organization_url |-> r.organization_url,
     downloads |-> IF show_downloads THEN r.downloads.n ELSE -1]

\* the lines print_results prints, up to the row that raises
print_results(rs, show_downloads) ==
    IF rs = <<>> THEN << [kind |-> "no_models"] >>
    ELSE LET ok == {n \in 0..Len(rs) : \A i \in 1..n : ~RowRaises(rs[i])}
             last == CHOOSE n \in ok : \A k \in ok : k <= n
         IN << [kind |-> "found", n |-> Len(rs)], [kind |-> "rule"] >>
            \o [i \in 1..last |-> ResultLine(i, rs[i], show_downloads)]

CsvHeader == << <<"model_name">>, <<"task">>, <<"organization_url">> >>

CsvRows(rs) ==
    <<CsvHeader>> \o [i \in DOMAIN rs |-> <<Str(rs[i].model_name), rs[i].task,
                                             rs[i].organization_url>>]

\* a path is the sequence of its components; <<>> is the working directory
Parents(path) == {SubSeq(path, 1, k) : k \in 0..(Len(path) - 1)}

\* export_csv without the early return for an empty list
ExportCsvAlways(rs, filename, fs) ==
    [dirs |-> fs.dirs \cup Parents(filename),
     files |-> [f \in DOMAIN fs.files \cup {filename} |->
                   IF f = filename THEN CsvRows(rs) ELSE fs.files[f]],
     out |-> << [kind |-> "exported", n |-> Len(rs), filename |-> filename] >>]

\* export_csv(results, filename) on the file system fs = [dirs, files]: the file
\* system and the lines printed afterwards
export_csv(rs, filename, fs) ==
    IF rs = <<>>
    THEN [dirs |-> fs.dirs, files |-> fs.files, out |-> << [kind |-> "no_results"] >>]
    ELSE [dirs |-> fs.dirs \cup Parents(filename),
          files |-> [f \in DOMAIN fs.files \cup {filename} |->
                        IF f = filename THEN CsvRows(rs) ELSE fs.files[f]],
          out |-> << [kind |-> "exported", n |-> Len(rs), filename |-> filename] >>]

-----------------------------------------------------------------------------
(* The records and arguments the model draws from *)

Info(id, tag, downloads, likes) ==
    [id |-> id, pipeline_tag |-> tag, downloads |-> downloads, likes |-> likes,
     repr |-> <<"o">>]

ModelInfos ==
    { Info(PyStr(<<"a", "/", "b">>), PyStr(<<"t">>), Num(1000), Num(3)),
      Info(PyStr(<<"b", "/", "a">>), PyNone, Num(10000), NumNone),
      Info(PyStr(<<"a">>), PyStr(<<"t">>), NumNone, NumAbsent),
      Info(PyStr(<<"b">>), Absent, Num(999), Num(0)),
      Info(PyStr(<<"B">>), PyStr(<<"t">>), NumStr, Num(3)),
      Info(Absent, PyStr(<<"t">>), Num(1000), Num(3)),
      Info(PyNone, PyStr(<<"t">>), Num(10000), Num(3)),
      Info(PyStr(<<>>), PyStr(<<"t">>), Num(10000), Num(3)),
      Info(PyList(<<"b">>), PyStr(<<"t">>), Num(10000), Num(3)),
      Info(PyIntObj, PyStr(<<"t">>), Num(10000), Num(3)) }

Yields(S, n) == UNION {[1..k -> S] : k \in 0..n}

\* list_models raising when called yields nothing
Behaviours(S, n) ==
    {<<ys, e>> \in Yields(S, n) \X {"stop", "call_error", "iter_error", "interrupt"} :
        e = "call_error" => ys = <<>>}

Queries == {PyNone, PyStr(<<>>), PyStr(<<"B">>)}
Tasks == {PyNone, PyStr(<<"t">>)}
Orgs == {PyStr(<<"a">>)}
MinDownloads == {0, TaskFloor}

OutCsv == << <<"out.csv">> >>
DirOutCsv == << <<"d">>, <<"e">>, <<"out.csv">> >>
OldRows == <<CsvHeader, << <<"o", "l", "d">>, Other, HF >> >>

-----------------------------------------------------------------------------
(* A client that makes one search, prints the results and exports them:    *)
(* main(), or a caller of one of the preset wrappers.  An option a later   *)
(* step reads (--no-downloads, --csv) is drawn when that step reads it.    *)

NoOp == [fn |-> "none", popular_only |-> TRUE]
NoCmd == [cmd |-> <<>>, arg |-> PyNone]
NoModel == Info(PyNone, PyNone, NumNone, NumNone)

Max(a, b) == IF a >= b THEN a ELSE b

CliArgs ==
    [name : Queries, task : Tasks, org : {PyNone}, library : {PyNone},
     limit : {DefaultLimit}, min_downloads : MinDownloads, popular : BOOLEAN,
     recent : {FALSE}, sort : {<<"downloads">>}, asc : {FALSE}]

\* the arguments main() passes to search for the parsed command line cli
main_args(cli) ==
    LET min_downloads == IF cli.popular THEN Max(cli.min_downloads, PopularFloor)
                         ELSE cli.min_downloads
        created_after == IF cli.recent THEN PyStr(<<"2024-01-01">>) ELSE PyNone
        direction == IF cli.asc THEN 1 ELSE -1
    IN [query |-> cli.name, task |-> cli.task, organization |-> cli.org,
        library |-> cli.library, sort |-> cli.sort, direction |-> direction,
        limit |-> cli.limit, min_downloads |-> min_downloads,
        created_after |-> created_after]

\* the client calls fn, which calls search(**a); list_models behaves as b
Invoke(fn, popular_only, a, b) ==
    LET r == search(a, b[1], b[2]) IN
    /\ op' = [fn |-> fn, popular_only |-> popular_only]
    /\ args' = a
    /\ params' = BuildParams(a)
    /\ upstream' = b[1]
    /\ ending' = b[2]
    /\ log' = r.log
    /\ results' = r.results
    /\ interrupted' = r.raised
    /\ pc' = IF r.raised THEN "crashed" ELSE "searched"
    /\ UNCHANGED <<out, dirs, files, cmd, ncmd, model, formatted>>

Main ==
    /\ pc = "start"
    /\ \E cli \in CliArgs, b \in Behaviours(ModelInfos, MaxModels) :
           Invoke("search", TRUE, main_args(cli), b)

SearchByName ==
    /\ pc = "start"
    /\ \E b \in Behaviours(ModelInfos, MaxModels) :
           Invoke("search_by_name", TRUE, search_by_name(PyStr(<<"B">>), NameLimit), b)

SearchByTask ==
    /\ pc = "start"
    /\ \E popular_only \in BOOLEAN, b \in Behaviours(ModelInfos, MaxModels) :
           Invoke("search_by_task", popular_only,
                  search_by_task(PyStr(<<"t">>), DefaultLimit, popular_only), b)

SearchByOrg ==
    /\ pc = "start"
    /\ \E org \in Orgs, b \in Behaviours(ModelInfos, MaxModels) :
           Invoke("search_by_org", TRUE, search_by_org(org, DefaultLimit), b)

GetPopular ==
    /\ pc = "start"
    /\ \E b \in Behaviours(ModelInfos, MaxModels) :
           Invoke("get_popular", TRUE, get_popular(PyNone, DefaultLimit), b)

GetRecent ==
    /\ pc = "start"
    /\ \E b \in Behaviours(ModelInfos, MaxModels) :
           Invoke("get_recent", TRUE, get_recent(PyNone, DefaultLimit), b)

\* searcher.print_results(results, show_downloads=...); a TypeError ends the client
PrintResults ==
    /\ pc = "searched"
    /\ \E show_downloads \in BOOLEAN : out' = print_results(results, show_downloads)
    /\ pc' = IF PrintRaises(results) THEN "crashed" ELSE "printed"
    /\ UNCHANGED <<op, args, params, upstream, ending, results, log, dirs, files,
                   cmd, ncmd, interrupted, model, formatted>>

\* if args.csv: searcher.export_csv(results, args.csv)
ExportCsv ==
    /\ pc = "printed"
    /\ \E csv \in {<<>>, OutCsv, DirOutCsv} :
          IF csv = <<>>
          THEN UNCHANGED <<op, out, dirs, files>>
          ELSE LET e == export_csv(results, csv, [dirs |-> dirs, files |-> files])
               IN /\ op' = [fn |-> "export_csv", popular_only |-> TRUE]
                  /\ out' = e.out
                  /\ dirs' = e.dirs
                  /\ files' = e.files
    /\ pc' = "done"
    /\ UNCHANGED <<args, params, upstream, ending, results, log, cmd, ncmd,
                   interrupted, model, formatted>>

Init ==
    /\ pc = "start"
    /\ op = NoOp
    /\ args = DefaultArgs
    /\ params = BuildParams(DefaultArgs)
    /\ upstream = <<>>
    /\ ending = "stop"
    /\ results = <<>>
    /\ log = <<>>
    /\ out = <<>>
    /\ dirs = {<<>>}
    /\ files = [f \in {OutCsv} |-> OldRows]
    /\ cmd = NoCmd
    /\ ncmd = 0
    /\ interrupted = FALSE
    /\ model = NoModel
    /\ formatted = None

Next ==
    \/ Main
    \/ SearchByName
    \/ SearchByTask
    \/ SearchByOrg
    \/ GetPopular
    \/ GetRecent
    \/ PrintResults
    \/ ExportCsv

Spec == Init /\ [][Next]_vars

-----------------------------------------------------------------------------
(* _format_model on its own, for every identifier of up to MaxIdLen        *)
(* characters                                                              *)

Chars == {"a", "B", "/"}

FormatInputs ==
    { Info(PyStr(s), tag, downloads, NumNone) :
        s \in Yields(Chars, MaxIdLen), tag \in {PyNone, PyStr(<<"t">>)},
        downloads \in {NumAbsent, Num(5)} }
    \cup { Info(PyStr(<<"openai", "/", "gpt-2">>), PyNone, Num(5), NumNone),
           Info(PyStr(<<"gpt-2">>), PyNone, Num(5), NumNone) }
    \cup ModelInfos

FormatModel ==
    /\ pc = "format"
    /\ formatted' = _format_model(model)
    /\ pc' = "formatted"
    /\ UNCHANGED <<op, args, params, upstream, ending, results, log, out, dirs, files,
                   cmd, ncmd, interrupted, model>>

InitFormat ==
    /\ pc = "format"
    /\ model \in FormatInputs
    /\ formatted = None
    /\ op = NoOp
    /\ args = DefaultArgs
    /\ params = BuildParams(DefaultArgs)
    /\ upstream = <<>>
    /\ ending = "stop"
    /\ results = <<>>
    /\ log = <<>>
    /\ out = <<>>
    /\ dirs = {<<>>}
    /\ files = [f \in {OutCsv} |-> OldRows]
    /\ cmd = NoCmd
    /\ ncmd = 0
    /\ interrupted = FALSE

NextFormat == FormatModel

SpecFormat == InitFormat /\ [][NextFormat]_vars

-----------------------------------------------------------------------------
(* interactive_mode: the command loop.  A line is the sequence of its      *)
(* words after strip() and split().                                        *)

InteractiveInfos ==
    { Info(PyStr(<<"b", "/", "a">>), PyStr(<<"t">>), Num(10000), Num(3)),
      Info(PyList(<<"b">>), PyNone, Num(10000), NumNone) }

Lines ==
    { <<>>, << <<"Q">> >>, << <<"quit">> >>, << <<"h">> >>, << <<"x">> >>,
      << <<"search">> >>, << <<"search">>, <<"B">> >>, << <<"task">>, <<"t">> >>,
      << <<"org">>, <<"a">> >>, << <<"popular">> >>, << <<"recent">>, <<"t">> >> }

LowerLine(line) == [i \in DOMAIN line |-> Lower(line[i])]

\* parts[0].lower() and parts[1] if len(parts) > 1 else None
Parse(line) ==
    [cmd |-> Lower(line[1]), arg |-> IF Len(line) > 1 THEN PyStr(line[2]) ELSE PyNone]

\* the wrapper a command runs: the method and the arguments it passes to search
Dispatch(c) ==
    CASE c.cmd = <<"search">> /\ Truthy(c.arg) ->
            [fn |-> "search_by_name", args |-> search_by_name(c.arg, NameLimit)]
      [] c.cmd = <<"task">> /\ Truthy(c.arg) ->
            [fn |-> "search_by_task", args |-> search_by_task(c.arg, DefaultLimit, TRUE)]
      [] c.cmd = <<"org">> /\ Truthy(c.arg) ->
            [fn |-> "search_by_org", args |-> search_by_org(c.arg, DefaultLimit)]
      [] c.cmd = <<"popular">> ->
            [fn |-> "get_popular", args |-> get_popular(c.arg, DefaultLimit)]
      [] c.cmd = <<"recent">> ->
            [fn |-> "get_recent", args |-> get_recent(c.arg, DefaultLimit)]
      [] OTHER -> [fn |-> "unknown", args |-> DefaultArgs]

\* f"hf_search_results_{cmd}_{arg or 'all'}.csv"
ExportName(c) ==
    << <<"hf_search_results_">> \o c.cmd \o <<"_">>
       \o (IF Truthy(c.arg) THEN c.arg.s ELSE <<"all">>) \o <<".csv">> >>

\* an interrupt handler that prints the goodbye and lacks the break
InterruptNoBreak == [pc |-> "prompt", out |-> << [kind |-> "goodbye"] >>]

\* except KeyboardInterrupt: print the goodbye, break
OnKeyboardInterrupt == [pc |-> "returned", out |-> << [kind |-> "goodbye"] >>]

\* except Exception: print the error; the loop goes on
OnException == [pc |-> "prompt", out |-> << [kind |-> "error"] >>]

\* command = input("> ").strip(), up to the call of the wrapper
ReadCommand ==
    /\ pc = "prompt"
    /\ \E line \in Lines :
          IF line = <<>> \/ LowerLine(line) \in {<< <<"quit">> >>, << <<"exit">> >>, << <<"q">> >>}
          THEN /\ pc' = "returned"
               /\ UNCHANGED <<out, cmd, ncmd>>
          ELSE /\ ncmd < MaxCommands
               /\ ncmd' = ncmd + 1
               /\ IF LowerLine(line) \in {<< <<"help">> >>, << <<"h">> >>}
                  THEN /\ out' = << [kind |-> "help"] >>
                       /\ pc' = "prompt"
                       /\ UNCHANGED cmd
                  ELSE /\ cmd' = Parse(line)
                       /\ IF Dispatch(Parse(line)).fn = "unknown"
                          THEN out' = << [kind |-> "unknown_command"] >> /\ pc' = "prompt"
                          ELSE out' = <<>> /\ pc' = "search"
    /\ UNCHANGED <<op, args, params, upstream, ending, results, log, dirs, files,
                   interrupted, model, formatted>>

\* results = searcher.<wrapper>(arg); searcher.print_results(results); the blank
\* line when there is nothing to export
RunSearch ==
    /\ pc = "search"
    /\ \E b \in Behaviours(InteractiveInfos, MaxYield) :
          LET d == Dispatch(cmd)
              r == search(d.args, b[1], b[2])
              after == IF r.raised THEN OnKeyboardInterrupt
                       ELSE IF PrintRaises(r.results)
                       THEN [pc |-> OnException.pc,
                             out |-> print_results(r.results, TRUE) \o OnException.out]
                       ELSE [pc |-> IF r.results # <<>> THEN "export_prompt" ELSE "prompt",
                             out |-> print_results(r.results, TRUE)]
          IN /\ op' = [fn |-> d.fn, popular_only |-> TRUE]
             /\ args' = d.args
             /\ params' = BuildParams(d.args)
             /\ upstream' = b[1]
             /\ ending' = b[2]
             /\ log' = r.log
             /\ results' = IF r.raised THEN results ELSE r.results
             /\ interrupted' = r.raised
             /\ pc' = after.pc
             /\ out' = after.out
    /\ UNCHANGED <<dirs, files, cmd, ncmd, model, formatted>>

\* export = input("Export to CSV? [y/N]: ").lower().strip(), and the export
ExportAnswer ==
    /\ pc = "export_prompt"
    /\ \E answer \in {<<"Y">>, <<"yes">>, <<"n">>, <<>>} :
          IF Lower(answer) \in {<<"y">>, <<"yes">>}
          THEN LET e == export_csv(results, ExportName(cmd), [dirs |-> dirs, files |-> files])
               IN /\ op' = [fn |-> "export_csv", popular_only |-> TRUE]
                  /\ out' = e.out
                  /\ dirs' = e.dirs
                  /\ files' = e.files
          ELSE /\ out' = <<>>
               /\ UNCHANGED <<op, dirs, files>>
    /\ pc' = "prompt"
    /\ UNCHANGED <<args, params, upstream, ending, results, log, cmd, ncmd,
                   interrupted, model, formatted>>

\* input() raises KeyboardInterrupt at either prompt
InterruptInput ==
    /\ pc \in {"prompt", "export_prompt"}
    /\ interrupted' = TRUE
    /\ pc' = OnKeyboardInterrupt.pc
    /\ out' = OnKeyboardInterrupt.out
    /\ UNCHANGED <<op, args, params, upstream, ending, results, log, dirs, files,
                   cmd, ncmd, model, formatted>>

\* input() raises EOFError at either prompt
EndOfInput ==
    /\ pc \in {"prompt", "export_prompt"}
    /\ pc' = OnException.pc
    /\ out' = OnException.out
    /\ UNCHANGED <<op, args, params, upstream, ending, results, log, dirs, files,
                   cmd, ncmd, interrupted, model, formatted>>

InitInteractive ==
    /\ pc = "prompt"
    /\ op = NoOp
    /\ args = DefaultArgs
    /\ params = BuildParams(DefaultArgs)
    /\ upstream = <<>>
    /\ ending = "stop"
    /\ results = <<>>
    /\ log = <<>>
    /\ out = << [kind |-> "banner"] >>
    /\ dirs = {<<>>}
    /\ files = [f \in {OutCsv} |-> OldRows]
    /\ cmd = NoCmd
    /\ ncmd = 0
    /\ interrupted = FALSE
    /\ model = NoModel
    /\ formatted = None

NextInteractive ==
    \/ ReadCommand
    \/ RunSearch
    \/ ExportAnswer
    \/ InterruptInput
    \/ EndOfInput

SpecInteractive == InitInteractive /\ [][NextInteractive]_vars

-----------------------------------------------------------------------------
(* Properties *)

Searched == op.fn # "none" /\ pc # "start"

\* the identifier a record is known by: its id, or str(model) without one
Identifier(m) == IF m.id.t = "absent" THEN PyStr(m.repr) ELSE m.id

\* the download count of a record, absent or None counting as 0
DownloadCount(m) == IF m.downloads.t = "int" THEN m.downloads.n ELSE 0

Matches(r, query) ==
    \/ r.model_name.t = "str" /\ Contains(Lower(query.s), Lower(r.model_name.s))
    \/ r.full_model_id.t = "str" /\ Contains(Lower(query.s), Lower(r.full_model_id.s))

\* C1: with a non-empty query, every returned record has the query,
\* case-insensitively, as a substring of its model_name or its full_model_id.
C1_QueryFiltered ==
    (Searched /\ args.query.t = "str" /\ args.query.s # <<>>) =>
        \A i \in DOMAIN results : Matches(results[i], args.query)

\* C2: every returned record has downloads >= min_downloads, its downloads being
\* the upstream record's count with an absent or None count taken as 0.
C2_DownloadFloor ==
    \A i \in DOMAIN results :
        /\ results[i].downloads.t = "int"
        /\ results[i].downloads.n >= args.min_downloads
        /\ \E j \in DOMAIN upstream :
              /\ Identifier(upstream[j]) = results[i].full_model_id
              /\ upstream[j].downloads.t # "str"
              /\ DownloadCount(upstream[j]) = results[i].downloads.n

C2_Witness ==
    /\ pc = "searched"
    /\ args.min_downloads = 1000
    /\ Len(upstream) = 2
    /\ upstream[1].downloads = NumNone
    /\ upstream[2].downloads = Num(1000)
    /\ Len(results) = 1

\* C3: when the listing fails, on the call or during the iteration, search returns
\* the empty list and no exception reaches the caller; records accepted before
\* the failure are not returned.
C3_FailureGivesEmpty ==
    (Searched /\ ending \in {"call_error", "iter_error"}) =>
        /\ results = <<>>
        /\ pc \in {"searched", "printed", "done"}
        /\ ~interrupted

C3_Witness ==
    /\ pc = "searched"
    /\ ending = "iter_error"
    /\ args.min_downloads = 0
    /\ Len(upstream) >= 1
    /\ upstream[1].id = PyStr(<<"b", "/", "a">>)
    /\ results = <<>>

\* C4 as stated: no returned record comes from an upstream record without an id
\* attribute, or with an id that is None or empty.
C4_MissingIdSkipped ==
    \A i \in DOMAIN results :
        \E j \in DOMAIN upstream :
            /\ upstream[j].id.t \notin {"absent", "None"}
            /\ upstream[j].id # PyStr(<<>>)
            /\ results[i].full_model_id = upstream[j].id

Skipped(m) == m.id.t = "None" \/ Identifier(m) = PyStr(<<>>)

\* C4, amended: no returned record comes from an upstream record whose id is
\* None or empty; a record without an id attribute is known by str(model) and is
\* skipped only when that is empty; the other records are still processed.
C4_EmptyIdSkipped ==
    /\ \A i \in DOMAIN results :
          /\ results[i].full_model_id.s # <<>>
          /\ \E j \in DOMAIN upstream :
                ~Skipped(upstream[j]) /\ results[i].full_model_id = Identifier(upstream[j])
    /\ (Searched /\ ending = "stop") =>
          \A j \in DOMAIN upstream :
              ( /\ upstream[j].id.t \in {"str", "absent"}
                /\ ~Skipped(upstream[j])
                /\ upstream[j].downloads.t # "str"
                /\ DownloadCount(upstream[j]) >= args.min_downloads )
              => \E i \in DOMAIN results :
                    results[i].full_model_id = Identifier(upstream[j])

C4_Witness ==
    /\ pc = "searched"
    /\ ending = "stop"
    /\ Len(upstream) = 2
    /\ upstream[1].id = PyStr(<<>>)
    /\ upstream[2].id.t = "absent"
    /\ Len(results) = 1
    /\ results[1].full_model_id = PyStr(upstream[2].repr)

\* a record on which normalizing or filtering raises: an id that is neither a
\* string nor a list, a download count that does not compare with a number, a
\* name without lower() under a query
Fails(m, query) ==
    \/ m.id.t = "int"
    \/ m.id.t = "list" /\ (HasSlash(m.id.s) \/ Truthy(query))
    \/ m.id.t \in {"str", "list"} /\ m.id.s # <<>> /\ m.downloads.t = "str"

\* C5: a record on which normalizing or filtering fails is absent from the
\* returned list, and every other record that passes the filters is returned.
C5_FailingRecordDropped ==
    (Searched /\ ending = "stop") =>
        \A j \in DOMAIN upstream :
            /\ Fails(upstream[j], args.query) =>
                  \A i \in DOMAIN results : results[i].full_model_id # upstream[j].id
            /\ ( /\ ~Fails(upstream[j], args.query)
                 /\ upstream[j].id.t = "str"
                 /\ upstream[j].id.s # <<>>
                 /\ DownloadCount(upstream[j]) >= args.min_downloads
                 /\ (Truthy(args.query) =>
                        Matches([model_name |-> PyNone, full_model_id |-> upstream[j].id],
                                args.query)) )
               => \E i \in DOMAIN results : results[i].full_model_id = upstream[j].id

\* C6: for a non-empty string identifier, full_model_id is the identifier; with a
\* slash, organization is the text before the first slash, model_name the text
\* after it and organization_url "huggingface.co/" + organization; without one,
\* organization is "independent", model_name the identifier and organization_url
\* "huggingface.co".
C6_SplitIdentifier ==
    (pc = "formatted" /\ model.id.t = "str" /\ model.id.s # <<>>) =>
        /\ formatted # None
        /\ formatted.full_model_id = model.id
        /\ formatted.model_name.t = "str"
        /\ IF \E i \in DOMAIN model.id.s : model.id.s[i] = "/"
           THEN /\ formatted.organization \o <<"/">> \o formatted.model_name.s = model.id.s
                /\ \A i \in DOMAIN formatted.organization : formatted.organization[i] # "/"
                /\ formatted.organization_url
                      = <<"huggingface.co", "/">> \o formatted.organization
           ELSE /\ formatted.organization = <<"independent">>
                /\ formatted.model_name = model.id
                /\ formatted.organization_url = <<"huggingface.co">>
        /\ model.id.s = <<"openai", "/", "gpt-2">> =>
              /\ formatted.organization = <<"openai">>
              /\ formatted.model_name.s = <<"gpt-2">>
              /\ formatted.organization_url = <<"huggingface.co", "/", "openai">>

C6_Witness ==
    /\ pc = "formatted"
    /\ model.id.s = <<"a", "/", "/">>
    /\ formatted.organization = <<"a">>
    /\ formatted.model_name.s = <<"/">>

\* C7: export_csv called with an empty list leaves the file system as it was (no
\* directory made, no file made or truncated) and prints the no-results line.
C7_EmptyExportWritesNothing ==
    [][(pc = "printed" /\ op'.fn = "export_csv" /\ results = <<>>) =>
          /\ dirs' = dirs
          /\ files' = files
          /\ out' = << [kind |-> "no_results"] >>]_vars

C7_Witness ==
    /\ pc = "done"
    /\ op.fn = "export_csv"
    /\ results = <<>>
    /\ out = << [kind |-> "no_results"] >>
    /\ dirs = {<<>>}
    /\ DOMAIN files = {OutCsv}
    /\ files[OutCsv] = OldRows

\* the records an unfloored search returns from a listing that ran to its end
Countable(m) ==
    /\ m.id.t \in {"str", "list", "absent"}
    /\ Identifier(m).s # <<>>
    /\ ~(m.id.t = "list" /\ \E i \in DOMAIN m.id.s : m.id.s[i] = "/")
    /\ m.downloads.t # "str"

\* C8: search_by_task returns only records with downloads >= 1000, or >= 0 when
\* popular_only is False; get_popular only records with downloads >= 10000;
\* search_by_name and search_by_org drop no record for its download count.
C8_PresetFloors ==
    /\ op.fn = "search_by_task" =>
          /\ args.min_downloads = IF op.popular_only THEN 1000 ELSE 0
          /\ \A i \in DOMAIN results :
                results[i].downloads.n >= IF op.popular_only THEN 1000 ELSE 0
    /\ op.fn = "get_popular" =>
          /\ args.min_downloads = 10000
          /\ \A i \in DOMAIN results : results[i].downloads.n >= 10000
    /\ op.fn \in {"search_by_name", "search_by_org"} =>
          /\ args.min_downloads = 0
          /\ ending = "stop" =>
                Len(results) = Cardinality({j \in DOMAIN upstream : Countable(upstream[j])})

C8_Witness ==
    /\ pc = "searched"
    /\ op.fn = "search_by_task"
    /\ op.popular_only
    /\ Len(upstream) = 2
    /\ upstream[1].downloads = Num(999)
    /\ upstream[2].downloads = Num(1000)
    /\ Len(results) = 1
    /\ results[1].downloads.n = 1000

\* C9: a KeyboardInterrupt at the command prompt, during a search or at the
\* export prompt ends the loop with the goodbye line; interactive_mode returns,
\* the interrupt does not leave it and the loop does not go on.
C9_InterruptEndsLoop ==
    interrupted => (pc = "returned" /\ out = << [kind |-> "goodbye"] >>)

C9_Witness ==
    /\ interrupted
    /\ pc = "returned"
    /\ ending = "interrupt"
    /\ op.fn = "search_by_name"
    /\ ncmd >= 1

RECURSIVE IsSubseq(_, _)
IsSubseq(s, t) ==
    IF s = <<>> THEN TRUE
    ELSE IF t = <<>> THEN FALSE
    ELSE IF Head(s) = Head(t) THEN IsSubseq(Tail(s), Tail(t))
    ELSE IsSubseq(s, Tail(t))

\* C10: the returned list is an order-preserving subsequence of the normalized
\* upstream records, so it is never longer than the upstream sequence.
C10_OrderedSubsequence ==
    /\ IsSubseq(results, [j \in DOMAIN upstream |-> _format_model(upstream[j])])
    /\ Len(results) <= Len(upstream)

C10_Witness ==
    /\ pc = "searched"
    /\ Len(upstream) = 2
    /\ Len(results) = 2
    /\ results[1] # results[2]

====
